---- MODULE Spec2Model ----
(***************************************************************************)
(* Bay Wheels trip analytics: the coordinate cleaning of                   *)
(* load_and_preprocess_data, the station aggregations, the trip metrics,   *)
(* the st.cache_data memoisation and the timelapse loop of app.py.         *)
(* Each part has its own specification over its own variables; the other   *)
(* variables keep their initial value.                                     *)
(***************************************************************************)
EXTENDS Integers, Sequences, FiniteSets, TLC

VARIABLES
    \* load_and_preprocess_data: the coordinate cleaning
    csv,            \* rows as read by pd.read_csv, in file order
    df,             \* the frame the function works on
    vpc,            \* position in the function: "read", "dropna", "done"
    \* analyze_station_patterns / station_differences
    trips,          \* the preprocessed frame: one row per trip
    head_n,         \* the size given to head()
    start_stations, \* top start stations (october_insights.py:55-61)
    station_flows,  \* starts / ends / imbalance table (october_insights.py:63-70)
    station_differences, \* the table of october_analysis.py:47-58
    spc,            \* "loaded", "analyzed" (insights), "differenced",
                    \* "charted" or "aggregated" (analysis)
    top_start_stations, \* calculate_aggregations (october_analysis.py:72-74)
    top_end_stations,   \* calculate_aggregations (october_analysis.py:75-77)
    station_pairs,      \* calculate_aggregations (october_analysis.py:78-80)
    station_differences_chart, \* the table of october_analysis.py:392-404
    \* calculate_trip_metrics and the metrics shown by main()
    metrics_df,     \* the frame given to calculate_trip_metrics
    metrics,        \* the tuple it returns
    metric_text,    \* the strings main() gives to st.metric
    mpc,            \* "loaded", "calculated", "displayed"
    \* app.py: one run of the script after another
    hour,           \* st.slider("Select Hour", 0, 23)
    day_of_week,    \* st.selectbox("Select Day of the Week")
    play,           \* st.button("Play Timelapse") as read by this run
    pause,          \* st.button("Pause Timelapse") as read by this run
    it,             \* number of iterations of the for loop entered so far
    frames,         \* the maps the loop has put in map_placeholder, in order
    map_placeholder,\* the map on display
    pause_clicked,  \* Pause was clicked while this run was in the loop
    frames_at_click,\* Len(frames) when it was clicked
    tpc,            \* "display", "for", "sleep", "waiting"
    \* st.cache_data
    file,           \* the content of bay_wheels_october.csv on disk (its version)
    cache,          \* st.cache_data: (function, arguments) -> stored result
    calls,          \* (function, inputs) -> times the function body has run
    returned,       \* (function, inputs) -> the results calls have returned
    last_load,      \* the latest load: what it returned, what reading the file gives
    runs,           \* script runs so far
    \* app.py: the data behind the maps
    app_csv,        \* bay_wheels_october.csv as read at line 13
    data,           \* load_data(): the rows with hour and day_of_week
    agg_data,       \* aggregate_data(data)
    filtered_data,  \* the rows given to the HexagonLayer (lines 59-62, 102-105)
    frame_hour,     \* the hour filtered_data was selected for
    apc             \* "read", "loaded", "aggregated", "filter", "for", "done"

valVars == <<csv, df, vpc>>
staVars == <<trips, head_n, start_stations, station_flows, station_differences, spc,
             top_start_stations, top_end_stations, station_pairs,
             station_differences_chart>>
metVars == <<metrics_df, metrics, metric_text, mpc>>
tlVars == <<hour, day_of_week, play, pause, it, frames, map_placeholder,
            pause_clicked, frames_at_click, tpc>>
cacheVars == <<file, cache, calls, returned, last_load, runs>>
snapVars == <<app_csv, data, agg_data, filtered_data, frame_hour, apc>>

vars == <<csv, df, vpc,
          trips, head_n, start_stations, station_flows, station_differences, spc,
          top_start_stations, top_end_stations, station_pairs,
          station_differences_chart,
          metrics_df, metrics, metric_text, mpc,
          hour, day_of_week, play, pause, it, frames, map_placeholder,
          pause_clicked, frames_at_click, tpc,
          file, cache, calls, returned, last_load, runs,
          app_csv, data, agg_data, filtered_data, frame_hour, apc>>

----------------------------------------------------------------------------
(* Values.  A float cell is <<v>> for the number v and <<>> for NaN, the   *)
(* value pd.read_csv gives a missing cell.                                 *)

NaN == <<>>
Num(v) == <<v>>
isna(x) == x = NaN
val(x) == x[1]

\* Bounds of the model
MaxRows == 2

\* Series.between(left, right), inclusive="both"; a NaN cell compares False
betweenExclusive(x, left, right) == ~isna(x) /\ left < val(x) /\ val(x) < right
between(x, left, right) == ~isna(x) /\ left <= val(x) /\ val(x) <= right

\* The cells the rows are drawn from: every column has a missing value, a
\* value on a bound of its range and a value just outside the other bound.
StartLats == {NaN, Num(-90), Num(91)}
StartLngs == {NaN, Num(180), Num(-181)}
EndLats   == {NaN, Num(90), Num(-91)}
EndLngs   == {Num(-180), Num(181)}

Coords == [start_lat : StartLats, start_lng : StartLngs,
           end_lat : EndLats, end_lng : EndLngs]

\* A row of the frame: its index label (the RangeIndex of read_csv) and cells
Row(i, c) == [idx |-> i, start_lat |-> c.start_lat, start_lng |-> c.start_lng,
              end_lat |-> c.end_lat, end_lng |-> c.end_lng]

\* the frame read_csv gives for a file of n rows with the cells cs
RawFrame(n, cs) == [i \in 1..n |-> Row(i, cs[i])]

\* df.dropna(subset=["start_lat", "start_lng", "end_lat", "end_lng"])
NotNaRow(r) == ~isna(r.start_lat) /\ ~isna(r.start_lng)
               /\ ~isna(r.end_lat) /\ ~isna(r.end_lng)
dropna(frame) == SelectSeq(frame, NotNaRow)

\* the boolean mask of df[...]: both latitudes in [-90, 90], both longitudes
\* in [-180, 180]
CoordMask(r) == /\ between(r.start_lat, -90, 90)
                /\ between(r.end_lat, -90, 90)
                /\ between(r.start_lng, -180, 180)
                /\ between(r.end_lng, -180, 180)
maskRows(frame) == SelectSeq(frame, CoordMask)

ValidateIdle == /\ csv = <<>>
                /\ df = <<>>
                /\ vpc = "off"

StationsIdle == /\ trips = <<>>
                /\ head_n = 0
                /\ start_stations = <<>>
                /\ station_flows = <<>>
                /\ station_differences = <<>>
                /\ spc = "off"
                /\ top_start_stations = <<>>
                /\ top_end_stations = <<>>
                /\ station_pairs = <<>>
                /\ station_differences_chart = <<>>

MetricsIdle == /\ metrics_df = <<>>
               /\ metrics = <<>>
               /\ metric_text = <<>>
               /\ mpc = "off"

TimelapseIdle == /\ hour = 0
                 /\ day_of_week = "All"
                 /\ play = FALSE
                 /\ pause = FALSE
                 /\ it = 0
                 /\ frames = <<>>
                 /\ map_placeholder = <<>>
                 /\ pause_clicked = FALSE
                 /\ frames_at_click = 0
                 /\ tpc = "off"

SnapshotIdle == /\ app_csv = <<>>
                /\ data = <<>>
                /\ agg_data = <<>>
                /\ filtered_data = <<>>
                /\ frame_hour = -1
                /\ apc = "off"

CacheIdle == /\ file = 1
             /\ cache = <<>>
             /\ calls = <<>>
             /\ returned = <<>>
             /\ last_load = <<>>
             /\ runs = 0

ValidateInit == /\ \E n \in 0..MaxRows : \E cs \in [1..n -> Coords] :
                      csv = RawFrame(n, cs)
                /\ df = csv
                /\ vpc = "read"
                /\ StationsIdle
                /\ MetricsIdle
                /\ TimelapseIdle
                /\ CacheIdle
                /\ SnapshotIdle

\* line 21 (october_insights.py) / line 15 (october_analysis.py)
DropNa == /\ vpc = "read"
          /\ df' = dropna(df)
          /\ vpc' = "dropna"
          /\ UNCHANGED <<csv, staVars, metVars, tlVars, cacheVars, snapVars>>

\* lines 22-27 / 16-21
FilterBetween == /\ vpc = "dropna"
                 /\ df' = maskRows(df)
                 /\ vpc' = "done"
                 /\ UNCHANGED <<csv, staVars, metVars, tlVars, cacheVars, snapVars>>

ValidateNext == DropNa \/ FilterBetween

SpecValidate == ValidateInit /\ [][ValidateNext]_vars

----------------------------------------------------------------------------
(* C1: the cleaned frame is exactly the rows of the input whose four       *)
(* coordinates are present and in range, in input order.                   *)

Present(x) == x # NaN
LatOk(x) == Present(x) /\ val(x) >= -90 /\ val(x) <= 90
LngOk(x) == Present(x) /\ val(x) >= -180 /\ val(x) <= 180
RowOk(r) == LatOk(r.start_lat) /\ LatOk(r.end_lat)
            /\ LngOk(r.start_lng) /\ LngOk(r.end_lng)

\* C1: once the cleaning is done, every output row is an input row that
\* passes, every input row that passes is an output row, and the output rows
\* are in the input's order.
ValidatorIsStableFilter ==
    vpc = "done" =>
        /\ \A k \in 1..Len(df) :
              /\ df[k].idx \in 1..Len(csv)
              /\ df[k] = csv[df[k].idx]
              /\ RowOk(df[k])
        /\ \A i \in 1..Len(csv) :
              RowOk(csv[i]) => \E k \in 1..Len(df) : df[k] = csv[i]
        /\ \A k \in 1..Len(df) - 1 : df[k].idx < df[k + 1].idx

\* a file of two rows of which the cleaning kept one, a row with
\* coordinates on the bounds of their ranges
ValidatorWitness ==
    /\ vpc = "done"
    /\ Len(csv) = 2
    /\ Len(df) = 1
    /\ df[1].start_lat = Num(-90)
    /\ df[1].start_lng = Num(180)

----------------------------------------------------------------------------
(* Station aggregations: analyze_station_patterns (october_insights.py) and *)
(* the station_differences table (october_analysis.py).                     *)

\* Bounds of the model
MaxTrips == 4
MaxHead == 1

\* head(10) at october_insights.py:59 and october_analysis.py:73
HeadN == 10

\* Station names in the order pandas sorts them; NoName is the NaN of a
\* missing station name.
StationNames == <<"A", "B">>
NoName == "NaN"
NameSet == {StationNames[k] : k \in 1..Len(StationNames)}

Trip(s, e) == [start_station_name |-> s, end_station_name |-> e]
TripRows == {Trip(s, e) : s \in NameSet \cup {NoName}, e \in NameSet \cup {NoName}}
\* the frames of n trips
TripFrames(n) == [1..n -> TripRows]

\* The sizes head() is called with: the code's 10, and the sizes at which the
\* same call truncates a table of the few stations of the model.
HeadSizes == (1..MaxHead) \cup {HeadN}

\* groupby(column).size(): one pass over the rows adding 1 to the group of
\* each row's key; rows whose key is NaN belong to no group (dropna=True).
RECURSIVE GroupSizes(_, _, _)
GroupSizes(frame, column, acc) ==
    IF frame = <<>> THEN acc
    ELSE LET key == Head(frame)[column]
         IN  GroupSizes(Tail(frame), column,
                 IF key = NoName THEN acc
                 ELSE [acc EXCEPT ![key] = @ + 1])

\* the groups that have rows, each counted once whatever its size
groupby_size_one(frame, column) ==
    LET sizes == GroupSizes(frame, column, [s \in NameSet |-> 0])
        all == [k \in 1..Len(StationNames) |->
                   [station |-> StationNames[k],
                    trip_count |-> IF sizes[StationNames[k]] > 0 THEN 1 ELSE 0]]
    IN  SelectSeq(all, LAMBDA g : g.trip_count > 0)

\* the resulting Series: the groups that have rows, sorted by key (sort=True)
groupby_size(frame, column) ==
    LET sizes == GroupSizes(frame, column, [s \in NameSet |-> 0])
        all == [k \in 1..Len(StationNames) |->
                   [station |-> StationNames[k], trip_count |-> sizes[StationNames[k]]]]
    IN  SelectSeq(all, LAMBDA g : g.trip_count > 0)

\* the rearrangements of a table
Rearrangements(s) ==
    LET n == Len(s)
        bij == {f \in [1..n -> 1..n] : \A i, j \in 1..n : i # j => f[i] # f[j]}
    IN  {[i \in 1..n |-> s[f[i]]] : f \in bij}

\* sort_values(ascending=...): kind="quicksort" is not stable, so rows with
\* equal keys may come out in any order.
sort_values_ascending(s, by) ==
    {p \in Rearrangements(s) : \A i \in 1..Len(p) - 1 : p[i][by] <= p[i + 1][by]}
sort_values_descending(s, by) ==
    {p \in Rearrangements(s) : \A i \in 1..Len(p) - 1 : p[i][by] >= p[i + 1][by]}

\* head(n): the first n rows, or all of them when there are fewer
head(s, n) == SubSeq(s, 1, IF n < Len(s) THEN n ELSE Len(s))

\* the same chain with sort_values() left at its default, ascending=True
topStationsAscending(frame, column, n) ==
    {head(p, n) : p \in sort_values_ascending(groupby_size(frame, column), "trip_count")}

\* df.groupby("start_station_name").size().sort_values(ascending=False).head(n)
\* : the tables the call can return
topStations(frame, column, n) ==
    {head(p, n) : p \in sort_values_descending(groupby_size(frame, column), "trip_count")}

\* --- the label index of a Series, and Index.union ---
IndexOf(series) == {series[k].station : k \in 1..Len(series)}
IndexIntersection(a, b) ==
    SelectSeq(StationNames, LAMBDA s : s \in IndexOf(a) /\ s \in IndexOf(b))
\* the sorted union of two label indexes
IndexUnion(a, b) ==
    SelectSeq(StationNames, LAMBDA s : s \in IndexOf(a) \/ s \in IndexOf(b))

\* the value a Series holds at a label, NaN where the label is absent
At(series, label) ==
    IF label \in IndexOf(series)
    THEN Num(series[CHOOSE k \in 1..Len(series) : series[k].station = label].trip_count)
    ELSE NaN

\* NaN replaced by the fill value
fillna(x, fill) == IF isna(x) THEN fill ELSE val(x)

\* october_insights.py:64-69: DataFrame of the two Series aligned on the
\* union of their indexes, fillna(0), imbalance column
flowsTable(frame) ==
    LET starts == groupby_size(frame, "start_station_name")
        ends == groupby_size(frame, "end_station_name")
        index == IndexUnion(starts, ends)
    IN  [k \in 1..Len(index) |->
           LET s == fillna(At(starts, index[k]), 0)
               e == fillna(At(ends, index[k]), 0)
           IN  [station |-> index[k], starts |-> s, ends |-> e, imbalance |-> e - s]]

\* october_analysis.py:48-57: both Series reindexed over the union with
\* fill_value=0, laid side by side with the union as station_name
differencesTable(frame) ==
    LET start_counts == groupby_size(frame, "start_station_name")
        end_counts == groupby_size(frame, "end_station_name")
        names == IndexUnion(start_counts, end_counts)
        si == IndexUnion(start_counts, end_counts)
        ei == IndexUnion(end_counts, start_counts)
    IN  [k \in 1..Len(names) |->
           LET s == fillna(At(start_counts, si[k]), 0)
               e == fillna(At(end_counts, ei[k]), 0)
           IN  [station |-> names[k], starts |-> s, ends |-> e, imbalance |-> e - s]]

StationsInit == /\ \E n \in 0..MaxTrips : trips \in TripFrames(n)
                /\ head_n = 0
                /\ start_stations = <<>>
                /\ station_flows = <<>>
                /\ station_differences = <<>>
                /\ spc = "loaded"
                /\ top_start_stations = <<>>
                /\ top_end_stations = <<>>
                /\ station_pairs = <<>>
                /\ station_differences_chart = <<>>
                /\ ValidateIdle
                /\ MetricsIdle
                /\ TimelapseIdle
                /\ CacheIdle
                /\ SnapshotIdle

\* analyze_station_patterns(df), october_insights.py:52-82
AnalyzeStationPatterns ==
    /\ spc = "loaded"
    /\ \E n \in HeadSizes :
          /\ head_n' = n
          /\ start_stations' \in topStations(trips, "start_station_name", n)
    /\ station_flows' \in sort_values_descending(flowsTable(trips), "imbalance")
    /\ spc' = "analyzed"
    /\ UNCHANGED <<trips, station_differences, top_start_stations, top_end_stations,
                   station_pairs, station_differences_chart, valVars, metVars, tlVars, cacheVars, snapVars>>

\* october_analysis.py:47-58 (reset_index(drop=True) renumbers the rows)
StationDifferences ==
    /\ spc = "loaded"
    /\ station_differences' \in sort_values_descending(differencesTable(trips), "imbalance")
    /\ spc' = "differenced"
    /\ UNCHANGED <<trips, head_n, start_stations, station_flows, top_start_stations,
                   top_end_stations, station_pairs, station_differences_chart,
                   valVars, metVars, tlVars, cacheVars, snapVars>>

StationsNext == AnalyzeStationPatterns \/ StationDifferences

SpecStations == StationsInit /\ [][StationsNext]_vars

----------------------------------------------------------------------------
(* C2: the top start stations                                               *)

\* the number of trips of the frame that start at station s
TrueStartCount(s) ==
    Cardinality({i \in 1..Len(trips) : trips[i].start_station_name = s})
TrueEndCount(s) ==
    Cardinality({i \in 1..Len(trips) : trips[i].end_station_name = s})

InTop(s) == \E k \in 1..Len(start_stations) : start_stations[k].station = s

\* C2: the top-n table has at most n entries, is sorted by count descending,
\* every count is the true number of trips starting at that station, and no
\* station left out has a strictly larger count than a station in the table.
TopStationsCorrect ==
    spc = "analyzed" =>
        /\ Len(start_stations) <= head_n
        /\ \A k \in 1..Len(start_stations) - 1 :
              start_stations[k].trip_count >= start_stations[k + 1].trip_count
        /\ \A k \in 1..Len(start_stations) :
              /\ start_stations[k].station \in NameSet
              /\ start_stations[k].trip_count = TrueStartCount(start_stations[k].station)
        /\ \A s \in NameSet :
              (TrueStartCount(s) > 0 /\ ~InTop(s)) =>
                  \A k \in 1..Len(start_stations) :
                      TrueStartCount(s) <= start_stations[k].trip_count

\* a truncating call: two stations start trips, one has more, head(1) kept it
TopStationsWitness ==
    /\ spc = "analyzed"
    /\ head_n = 1
    /\ TrueStartCount("A") = 1
    /\ TrueStartCount("B") = 2
    /\ Len(start_stations) = 1
    /\ start_stations[1].station = "B"

----------------------------------------------------------------------------
(* C3: the imbalance tables                                                 *)

StationUniverse ==
    ({trips[i].start_station_name : i \in 1..Len(trips)}
        \cup {trips[i].end_station_name : i \in 1..Len(trips)}) \ {NoName}

ImbalanceTableOk(table) ==
    /\ {table[k].station : k \in 1..Len(table)} = StationUniverse
    /\ Len(table) = Cardinality(StationUniverse)
    /\ \A k \in 1..Len(table) :
          /\ table[k].starts = TrueStartCount(table[k].station)
          /\ table[k].ends = TrueEndCount(table[k].station)
          /\ (TrueEndCount(table[k].station) = 0 => table[k].ends = 0)
          /\ (TrueStartCount(table[k].station) = 0 => table[k].starts = 0)
          /\ table[k].imbalance = table[k].ends - table[k].starts

ExampleTrips == <<Trip("A", "B"), Trip("A", "B"), Trip("B", "A"), Trip("A", "A")>>

RowOf(table, s) == table[CHOOSE k \in 1..Len(table) : table[k].station = s]

ExampleTableOk(table) ==
    /\ RowOf(table, "A") = [station |-> "A", starts |-> 3, ends |-> 2, imbalance |-> -1]
    /\ RowOf(table, "B") = [station |-> "B", starts |-> 1, ends |-> 2, imbalance |-> 1]

\* C3: both imbalance tables have one row per station of the union of the
\* start and end station names, a one-sided station has count 0 on the other
\* side, imbalance = ends - starts in every row, and the 4-trip example gives
\* the counts 3/2 and 1/2 with imbalances -1 and +1.
StationImbalanceCorrect ==
    /\ spc = "analyzed" =>
          /\ ImbalanceTableOk(station_flows)
          /\ (trips = ExampleTrips => ExampleTableOk(station_flows))
    /\ spc = "differenced" =>
          /\ ImbalanceTableOk(station_differences)
          /\ (trips = ExampleTrips => ExampleTableOk(station_differences))

\* the 4-trip example went through october_analysis.py's computation
StationImbalanceWitness ==
    /\ spc = "differenced"
    /\ trips = ExampleTrips
    /\ Len(station_differences) = 2

----------------------------------------------------------------------------
(* calculate_aggregations (october_analysis.py:62-102): the top start and   *)
(* end stations and the station pairs.                                      *)

\* Bounds of the model
MaxAggTrips == 3

\* the (start, end) keys in the order pandas sorts a two-level index
PairNames ==
    [k \in 1..(Len(StationNames) * Len(StationNames)) |->
        <<StationNames[((k - 1) \div Len(StationNames)) + 1],
          StationNames[((k - 1) % Len(StationNames)) + 1]>>]
PairSet == {PairNames[k] : k \in 1..Len(PairNames)}

\* groupby(["start_station_name", "end_station_name"]).size(): one pass
\* over the rows; a row with NaN in either key column belongs to no group.
RECURSIVE PairSizes(_, _)
PairSizes(frame, acc) ==
    IF frame = <<>> THEN acc
    ELSE LET key == <<Head(frame).start_station_name, Head(frame).end_station_name>>
         IN  PairSizes(Tail(frame),
                 IF key[1] = NoName \/ key[2] = NoName THEN acc
                 ELSE [acc EXCEPT ![key] = @ + 1])

\* the resulting Series: the pairs that have rows, sorted by key
groupby_pairs_size(frame) ==
    LET sizes == PairSizes(frame, [p \in PairSet |-> 0])
        all == [k \in 1..Len(PairNames) |->
                   [start |-> PairNames[k][1], end |-> PairNames[k][2],
                    trip_count |-> sizes[PairNames[k]]]]
    IN  SelectSeq(all, LAMBDA g : g.trip_count > 0)

\* the same chain sorted ascending
stationPairsAscending(frame, n) ==
    {head(p, n) : p \in sort_values_ascending(groupby_pairs_size(frame), "trip_count")}

\* data.groupby([...]).size().sort_values(ascending=False).head(n): the
\* tables the call can return
stationPairs(frame, n) ==
    {head(p, n) : p \in sort_values_descending(groupby_pairs_size(frame), "trip_count")}

AggregationsInit == /\ \E n \in 0..MaxAggTrips : trips \in TripFrames(n)
                    /\ head_n = 0
                    /\ start_stations = <<>>
                    /\ station_flows = <<>>
                    /\ station_differences = <<>>
                    /\ spc = "loaded"
                    /\ top_start_stations = <<>>
                    /\ top_end_stations = <<>>
                    /\ station_pairs = <<>>
                    /\ station_differences_chart = <<>>
                    /\ ValidateIdle
                    /\ MetricsIdle
                    /\ TimelapseIdle
                    /\ CacheIdle
                    /\ SnapshotIdle

\* calculate_aggregations(data), october_analysis.py:72-80
CalculateAggregations ==
    /\ spc = "loaded"
    /\ \E n \in HeadSizes :
          /\ head_n' = n
          /\ top_start_stations' \in topStations(trips, "start_station_name", n)
          /\ top_end_stations' \in topStations(trips, "end_station_name", n)
          /\ station_pairs' \in stationPairs(trips, n)
    /\ spc' = "aggregated"
    /\ UNCHANGED <<trips, start_stations, station_flows, station_differences,
                   station_differences_chart,
                   valVars, metVars, tlVars, cacheVars, snapVars>>

AggregationsNext == CalculateAggregations

SpecAggregations == AggregationsInit /\ [][AggregationsNext]_vars

----------------------------------------------------------------------------
(* C11: the order of keys with equal counts                                 *)

\* the position of the first trip whose column holds the key
FirstAt(column, s) ==
    CHOOSE i \in 1..Len(trips) :
        /\ trips[i][column] = s
        /\ \A j \in 1..(i - 1) : trips[j][column] # s

PairOf(t) == <<t.start_station_name, t.end_station_name>>
FirstPairAt(p) ==
    CHOOSE i \in 1..Len(trips) :
        /\ PairOf(trips[i]) = p
        /\ \A j \in 1..(i - 1) : PairOf(trips[j]) # p

ColumnCount(column, s) == Cardinality({i \in 1..Len(trips) : trips[i][column] = s})
PairCount(p) == Cardinality({i \in 1..Len(trips) : PairOf(trips[i]) = p})

\* the keys of a column that have trips
KeysOf(column) == {s \in NameSet : ColumnCount(column, s) > 0}
PairKeys == {p \in PairSet : PairCount(p) > 0}

\* in a top table of a column, a key comes before every key of the same
\* count that occurs later in the input, in the table or left out of it
TiesByFirstOccurrence(table, column) ==
    \A k \in 1..Len(table) : \A s \in KeysOf(column) :
        (s # table[k].station /\ ColumnCount(column, s) = table[k].trip_count
         /\ FirstAt(column, s) < FirstAt(column, table[k].station)) =>
            \E j \in 1..(k - 1) : table[j].station = s

PairTiesByFirstOccurrence(table) ==
    \A k \in 1..Len(table) : \A p \in PairKeys :
        (p # <<table[k].start, table[k].end>> /\ PairCount(p) = table[k].trip_count
         /\ FirstPairAt(p) < FirstPairAt(<<table[k].start, table[k].end>>)) =>
            \E j \in 1..(k - 1) : <<table[j].start, table[j].end>> = p

\* C11 as stated: of two keys with the same count, the one whose first trip
\* is earlier in the input is ranked first, in the top stations and in the
\* station pairs.
TieBreakByFirstOccurrence ==
    spc = "aggregated" =>
        /\ TiesByFirstOccurrence(top_start_stations, "start_station_name")
        /\ TiesByFirstOccurrence(top_end_stations, "end_station_name")
        /\ PairTiesByFirstOccurrence(station_pairs)

\* the k-th row of a top table holds the k-th largest of the counts
KthLargest(counts, k, v) ==
    /\ Cardinality({x \in DOMAIN counts : counts[x] > v}) < k
    /\ Cardinality({x \in DOMAIN counts : counts[x] >= v}) >= k

Smaller(a, b) == IF a < b THEN a ELSE b

\* C11 as amended: the top tables rank keys of different counts by count
\* descending and hold each key once with its true count, so the sequence of
\* counts of the truncated table is determined by the input; keys of equal
\* count come in no determined order.
CountsDeterminedTiesFree ==
    spc = "aggregated" =>
        /\ LET counts == [s \in KeysOf("start_station_name") |->
                             ColumnCount("start_station_name", s)]
           IN  /\ Len(top_start_stations) = Smaller(head_n, Cardinality(DOMAIN counts))
               /\ \A k \in 1..Len(top_start_stations) :
                     /\ top_start_stations[k].station \in DOMAIN counts
                     /\ top_start_stations[k].trip_count
                            = counts[top_start_stations[k].station]
                     /\ KthLargest(counts, k, top_start_stations[k].trip_count)
                     /\ \A j \in 1..(k - 1) :
                            top_start_stations[j].station # top_start_stations[k].station
        /\ LET counts == [s \in KeysOf("end_station_name") |->
                             ColumnCount("end_station_name", s)]
           IN  /\ Len(top_end_stations) = Smaller(head_n, Cardinality(DOMAIN counts))
               /\ \A k \in 1..Len(top_end_stations) :
                     /\ top_end_stations[k].station \in DOMAIN counts
                     /\ top_end_stations[k].trip_count
                            = counts[top_end_stations[k].station]
                     /\ KthLargest(counts, k, top_end_stations[k].trip_count)
                     /\ \A j \in 1..(k - 1) :
                            top_end_stations[j].station # top_end_stations[k].station
        /\ LET counts == [p \in PairKeys |-> PairCount(p)]
           IN  /\ Len(station_pairs) = Smaller(head_n, Cardinality(DOMAIN counts))
               /\ \A k \in 1..Len(station_pairs) :
                     /\ <<station_pairs[k].start, station_pairs[k].end>> \in DOMAIN counts
                     /\ station_pairs[k].trip_count
                            = counts[<<station_pairs[k].start, station_pairs[k].end>>]
                     /\ KthLargest(counts, k, station_pairs[k].trip_count)
                     /\ \A j \in 1..(k - 1) :
                            <<station_pairs[j].start, station_pairs[j].end>>
                                # <<station_pairs[k].start, station_pairs[k].end>>

\* two start stations with one trip each, B's first: the table kept by
\* head(1) holds A
TieOrderWitness ==
    /\ spc = "aggregated"
    /\ head_n = 1
    /\ trips = <<Trip("B", "A"), Trip("A", "B")>>
    /\ Len(top_start_stations) = 1
    /\ top_start_stations[1].station = "A"

----------------------------------------------------------------------------
(* The second station_differences of october_analysis.py (lines 392-404)    *)
(* beside the first and beside the station_flows of october_insights.py     *)

\* Bounds of the model
MaxImbTrips == 3

\* a table whose rows are the start stations only
differencesTableStartsOnly(frame) ==
    LET start_counts == groupby_size(frame, "start_station_name")
        end_counts == groupby_size(frame, "end_station_name")
        names == IndexUnion(start_counts, start_counts)
    IN  [k \in 1..Len(names) |->
           LET s == fillna(At(start_counts, names[k]), 0)
               e == fillna(At(end_counts, names[k]), 0)
           IN  [station |-> names[k], starts |-> s, ends |-> e, imbalance |-> e - s]]

\* october_analysis.py:393-402: as lines 48-57, but end_counts is reindexed
\* over start_counts.index.union(end_counts.index)
differencesTableAgain(frame) ==
    LET start_counts == groupby_size(frame, "start_station_name")
        end_counts == groupby_size(frame, "end_station_name")
        names == IndexUnion(start_counts, end_counts)
        si == IndexUnion(start_counts, end_counts)
        ei == IndexUnion(start_counts, end_counts)
    IN  [k \in 1..Len(names) |->
           LET s == fillna(At(start_counts, si[k]), 0)
               e == fillna(At(end_counts, ei[k]), 0)
           IN  [station |-> names[k], starts |-> s, ends |-> e, imbalance |-> e - s]]

ImbalanceInit == /\ \E n \in 0..MaxImbTrips : trips \in TripFrames(n)
                 /\ head_n = 0
                 /\ start_stations = <<>>
                 /\ station_flows = <<>>
                 /\ station_differences = <<>>
                 /\ spc = "loaded"
                 /\ top_start_stations = <<>>
                 /\ top_end_stations = <<>>
                 /\ station_pairs = <<>>
                 /\ station_differences_chart = <<>>
                 /\ ValidateIdle
                 /\ MetricsIdle
                 /\ TimelapseIdle
                 /\ CacheIdle
                 /\ SnapshotIdle

\* october_analysis.py:392-404.  df is what it was at line 58.  sort_values
\* leaves the order of equal imbalances open, but it is a function of the
\* frame it is given: on the rows line 58 sorted, in the same order, it
\* returns the order it returned there.
StationDifferencesAgain ==
    /\ spc = "differenced"
    /\ station_differences_chart' \in
          IF differencesTableAgain(trips) = differencesTable(trips)
          THEN {station_differences}
          ELSE sort_values_descending(differencesTableAgain(trips), "imbalance")
    /\ spc' = "charted"
    /\ UNCHANGED <<trips, head_n, start_stations, station_flows, station_differences,
                   top_start_stations, top_end_stations, station_pairs,
                   valVars, metVars, tlVars, cacheVars, snapVars>>

ImbalanceNext == \/ AnalyzeStationPatterns
                 \/ StationDifferences
                 \/ StationDifferencesAgain

SpecImbalance == ImbalanceInit /\ [][ImbalanceNext]_vars

----------------------------------------------------------------------------
(* C14: the three imbalance tables                                          *)

StationsOf(table) == {table[k].station : k \in 1..Len(table)}
RowsOf(table) == {table[k] : k \in 1..Len(table)}

\* two tables hold the same stations, each once, with the same start count,
\* end count and imbalance
AgreePerStation(a, b) ==
    /\ StationsOf(a) = StationsOf(b)
    /\ Len(a) = Cardinality(StationsOf(a))
    /\ Len(b) = Cardinality(StationsOf(b))
    /\ \A i \in 1..Len(a) : \A j \in 1..Len(b) :
          a[i].station = b[j].station =>
              /\ a[i].starts = b[j].starts
              /\ a[i].ends = b[j].ends
              /\ a[i].imbalance = b[j].imbalance

SameFirstRow(a, b) ==
    /\ (a = <<>>) = (b = <<>>)
    /\ a # <<>> => a[1].station = b[1].station

ImbalanceTablesWitness ==
    /\ spc = "charted"
    /\ trips = <<Trip("A", "B"), Trip("A", "B")>>
    /\ Len(station_differences_chart) = 2
    /\ station_differences_chart[1] = [station |-> "B", starts |-> 0, ends |-> 2, imbalance |-> 2]
    /\ station_differences[1].station = "B"

ImbalanceFlowsWitness ==
    /\ spc = "analyzed"
    /\ trips = <<Trip("A", "B"), Trip("A", "B")>>
    /\ Len(station_flows) = 2

----------------------------------------------------------------------------
(* Trip metrics: calculate_trip_metrics and the st.metric lines of main()   *)
(* (october_insights.py).  A float is NaN, or the exact fraction <<n, d>>.  *)

\* Bounds of the model
MaxMetricTrips == 3

Frac(n, d) == <<n, d>>

Durations == {-1, 2, 5}
Distances == {0, 3}
MetricRows == [trip_duration_minutes : Durations, distance_miles : Distances]
\* the frames of n trips
MetricFrames(n) == [1..n -> MetricRows]

Column(frame, name) == [i \in 1..Len(frame) |-> frame[i][name]]

RECURSIVE Sum(_)
Sum(xs) == IF xs = <<>> THEN 0 ELSE Head(xs) + Sum(Tail(xs))

RECURSIVE Insert(_, _)
Insert(x, sorted) ==
    IF sorted = <<>> THEN <<x>>
    ELSE IF x <= Head(sorted) THEN <<x>> \o sorted
    ELSE <<Head(sorted)>> \o Insert(x, Tail(sorted))

RECURSIVE Sorted(_)
Sorted(xs) == IF xs = <<>> THEN <<>> ELSE Insert(Head(xs), Sorted(Tail(xs)))

\* Series.mean(): NaN for an empty Series
mean(xs) == IF Len(xs) = 0 THEN NaN ELSE Frac(Sum(xs), Len(xs))

\* Series.median(): the middle value, or the mean of the two middle values;
\* NaN for an empty Series
median(xs) ==
    LET n == Len(xs)
        s == Sorted(xs)
    IN  IF n = 0 THEN NaN
        ELSE IF n % 2 = 1 THEN Frac(s[(n + 1) \div 2], 1)
        ELSE Frac(s[n \div 2] + s[n \div 2 + 1], 2)

\* Series.max(): NaN for an empty Series
max(xs) ==
    IF Len(xs) = 0 THEN NaN
    ELSE Frac(CHOOSE m \in {xs[i] : i \in 1..Len(xs)} :
                  \A i \in 1..Len(xs) : xs[i] <= m, 1)

\* calculate_trip_metrics(df): october_insights.py:84-92
calculate_trip_metrics(frame) ==
    [total_trips |-> Len(frame),
     avg_duration |-> mean(Column(frame, "trip_duration_minutes")),
     median_duration |-> median(Column(frame, "trip_duration_minutes")),
     avg_distance |-> mean(Column(frame, "distance_miles")),
     max_distance |-> max(Column(frame, "distance_miles"))]

\* n / d rounded to the nearest integer, halves to the even one
RoundHalfEven(n, d) ==
    LET q == n \div d
        r == n % d
    IN  IF 2 * r < d THEN q
        ELSE IF 2 * r > d THEN q + 1
        ELSE IF q % 2 = 0 THEN q ELSE q + 1

\* f"{x:.1f}": "nan" for NaN, otherwise the value to one decimal, held as
\* its number of tenths
Format1f(x) ==
    IF isna(x) THEN [nan |-> TRUE, tenths |-> 0]
    ELSE [nan |-> FALSE, tenths |-> RoundHalfEven(10 * x[1], x[2])]

MetricsInit == /\ \E n \in 0..MaxMetricTrips : metrics_df \in MetricFrames(n)
               /\ metrics = <<>>
               /\ metric_text = <<>>
               /\ mpc = "loaded"
               /\ ValidateIdle
               /\ StationsIdle
               /\ TimelapseIdle
               /\ CacheIdle
               /\ SnapshotIdle

\* october_insights.py:235
CalculateTripMetrics ==
    /\ mpc = "loaded"
    /\ metrics' = calculate_trip_metrics(metrics_df)
    /\ mpc' = "calculated"
    /\ UNCHANGED <<metrics_df, metric_text, valVars, staVars, tlVars, cacheVars, snapVars>>

\* october_insights.py:238-246
DisplayMetrics ==
    /\ mpc = "calculated"
    /\ metric_text' = [total_trips |-> metrics.total_trips,
                       avg_duration |-> Format1f(metrics.avg_duration),
                       median_duration |-> Format1f(metrics.median_duration),
                       avg_distance |-> Format1f(metrics.avg_distance),
                       max_distance |-> Format1f(metrics.max_distance)]
    /\ mpc' = "displayed"
    /\ UNCHANGED <<metrics_df, metrics, valVars, staVars, tlVars, cacheVars, snapVars>>

MetricsNext == CalculateTripMetrics \/ DisplayMetrics

SpecMetrics == MetricsInit /\ [][MetricsNext]_vars

----------------------------------------------------------------------------
(* C9: the metrics of an empty frame                                        *)

FloatMetrics == {"avg_duration", "median_duration", "avg_distance", "max_distance"}

\* C9: for an empty trip collection the metrics are total_trips = 0 with the
\* four averages/extrema null, and no NaN reaches the text main() displays.
EmptyMetricsNoNaNText ==
    metrics_df = <<>> =>
        /\ mpc \in {"calculated", "displayed"} =>
              /\ metrics.total_trips = 0
              /\ \A f \in FloatMetrics : isna(metrics[f])
        /\ mpc = "displayed" =>
              /\ metric_text.total_trips = 0
              /\ \A f \in FloatMetrics : ~metric_text[f].nan

----------------------------------------------------------------------------
(* app.py: Streamlit runs the script top to bottom, once at start-up and    *)
(* once more after every widget interaction.  A run reads the widgets       *)
(* (lines 45-56), shows the map of the selected hour (lines 58-94) and, if  *)
(* Play was clicked, goes through the timelapse loop (lines 97-130).        *)

\* st.slider("Select Hour", 0, 23, step=1, value=0)
SliderMin == 0
SliderMax == 23
\* range(hour, 24)
RangeStop == 24

\* options=["All"] + the days present in the data
DayOptions == {"All", "Monday", "Sunday"}

\* the rows of agg_data selected for an hour under the day filter (lines
\* 59-62 and 102-105), named by the selection
Snapshot(h, day) == [hour |-> h, day |-> day]

\* list(range(start + 1, 24))
TimelapseHoursFromNext(start) == [k \in 1..(RangeStop - start - 1) |-> start + k]
\* list(range(start, 25))
TimelapseHoursThrough24(start) == [k \in 1..(RangeStop + 1 - start) |-> start + k - 1]
\* the hours of a loop that goes on after 23 with hour 0
TimelapseHoursWrapping(start) == [k \in 1..(RangeStop + 1) |-> (start + k - 1) % RangeStop]
\* list(range(start, 24)): the hours the for loop goes through
TimelapseHours(start) == [k \in 1..(RangeStop - start) |-> start + k - 1]

\* the first run: every widget at its default
TimelapseInit == /\ hour = SliderMin
                 /\ day_of_week = "All"
                 /\ play = FALSE
                 /\ pause = FALSE
                 /\ it = 0
                 /\ frames = <<>>
                 /\ map_placeholder = <<>>
                 /\ pause_clicked = FALSE
                 /\ frames_at_click = 0
                 /\ tpc = "display"
                 /\ ValidateIdle
                 /\ StationsIdle
                 /\ MetricsIdle
                 /\ CacheIdle
                 /\ SnapshotIdle

\* a new run of the script starts
StartRun == /\ it' = 0
            /\ frames' = <<>>
            /\ map_placeholder' = <<>>
            /\ pause_clicked' = FALSE
            /\ frames_at_click' = 0
            /\ tpc' = "display"
            /\ UNCHANGED <<valVars, staVars, metVars, cacheVars, snapVars>>

\* the user moves the hour slider
MoveSlider == /\ tpc = "waiting"
              /\ hour' \in (SliderMin..SliderMax) \ {hour}
              /\ play' = FALSE
              /\ pause' = FALSE
              /\ UNCHANGED day_of_week
              /\ StartRun

\* the user selects a day
SelectDay == /\ tpc = "waiting"
             /\ day_of_week' \in DayOptions \ {day_of_week}
             /\ play' = FALSE
             /\ pause' = FALSE
             /\ UNCHANGED hour
             /\ StartRun

\* the user clicks Play Timelapse (line 55 returns True in the next run)
ClickPlay == /\ tpc = "waiting"
             /\ play' = TRUE
             /\ pause' = FALSE
             /\ UNCHANGED <<hour, day_of_week>>
             /\ StartRun

\* the user clicks Pause Timelapse (line 56 returns True in the next run)
ClickPause == /\ tpc = "waiting"
              /\ play' = FALSE
              /\ pause' = TRUE
              /\ UNCHANGED <<hour, day_of_week>>
              /\ StartRun

\* both clicks reach the same run: both buttons return True
ClickPlayAndPause == /\ tpc = "waiting"
                     /\ play' = TRUE
                     /\ pause' = TRUE
                     /\ UNCHANGED <<hour, day_of_week>>
                     /\ StartRun

\* lines 58-97: the map of the selected hour, then `if play:`
Display == /\ tpc = "display"
           /\ map_placeholder' = Snapshot(hour, day_of_week)
           /\ tpc' = IF play THEN "for" ELSE "waiting"
           /\ UNCHANGED <<hour, day_of_week, play, pause, it, frames,
                          pause_clicked, frames_at_click, valVars, staVars, metVars, cacheVars, snapVars>>

\* lines 98-100: the next h of the range, `if pause: break`
ForBreak == /\ tpc = "for"
            /\ it < Len(TimelapseHours(hour))
            /\ pause
            /\ tpc' = "waiting"
            /\ UNCHANGED <<hour, day_of_week, play, pause, it, frames, map_placeholder,
                           pause_clicked, frames_at_click, valVars, staVars, metVars, cacheVars, snapVars>>

\* lines 98-129: the next h of the range, pause not set: the frame of h
ForFrame == /\ tpc = "for"
            /\ it < Len(TimelapseHours(hour))
            /\ ~pause
            /\ it' = it + 1
            /\ LET h == TimelapseHours(hour)[it + 1]
               IN  /\ frames' = Append(frames, Snapshot(h, day_of_week))
                   /\ map_placeholder' = Snapshot(h, day_of_week)
            /\ tpc' = "sleep"
            /\ UNCHANGED <<hour, day_of_week, play, pause,
                           pause_clicked, frames_at_click, valVars, staVars, metVars, cacheVars, snapVars>>

\* line 130: time.sleep(1) returns
Sleep == /\ tpc = "sleep"
         /\ tpc' = "for"
         /\ UNCHANGED <<hour, day_of_week, play, pause, it, frames, map_placeholder,
                        pause_clicked, frames_at_click, valVars, staVars, metVars, cacheVars, snapVars>>

\* line 98: the range is exhausted
ForEnd == /\ tpc = "for"
          /\ it = Len(TimelapseHours(hour))
          /\ tpc' = "waiting"
          /\ UNCHANGED <<hour, day_of_week, play, pause, it, frames, map_placeholder,
                         pause_clicked, frames_at_click, valVars, staVars, metVars, cacheVars, snapVars>>

\* The user clicks Pause Timelapse while the loop is running.  The run read
\* `pause` at line 56, before the loop, and nothing in the loop reads the
\* button again: the variable tested at line 99 keeps its value.
PauseClickedWhilePlaying ==
    /\ tpc \in {"for", "sleep"}
    /\ ~pause_clicked
    /\ pause_clicked' = TRUE
    /\ frames_at_click' = Len(frames)
    /\ UNCHANGED <<hour, day_of_week, play, pause, it, frames, map_placeholder,
                   tpc, valVars, staVars, metVars, cacheVars, snapVars>>

TimelapseNext == \/ MoveSlider
                 \/ SelectDay
                 \/ ClickPlay
                 \/ ClickPause
                 \/ ClickPlayAndPause
                 \/ Display
                 \/ ForBreak
                 \/ ForFrame
                 \/ Sleep
                 \/ ForEnd
                 \/ PauseClickedWhilePlaying

SpecTimelapse == TimelapseInit /\ [][TimelapseNext]_vars

\* The interpreter goes on with the script: every statement of the run that
\* can be executed is executed, and time.sleep(1) returns.  Nothing is
\* assumed of the user.
TimelapseFairness == /\ WF_vars(Display)
                     /\ WF_vars(ForBreak)
                     /\ WF_vars(ForFrame)
                     /\ WF_vars(Sleep)
                     /\ WF_vars(ForEnd)

SpecTimelapseFair == SpecTimelapse /\ TimelapseFairness

----------------------------------------------------------------------------
(* C4, C5, C6: the frames of the timelapse                                  *)

\* C4 as stated: in a run started at hour h with pause not set, the k-th
\* frame is the snapshot for hour h + k.
KthFrameIsStartPlusK ==
    (play /\ ~pause) => \A k \in 1..Len(frames) : frames[k].hour = hour + k

\* C4 as amended: the k-th frame of a run started at hour h is the snapshot
\* for hour h + k - 1 under the selected day; from hour 5 the first three
\* frames are those of hours 5, 6, 7.
KthFrameIsStartPlusKMinus1 ==
    /\ \A k \in 1..Len(frames) : frames[k] = Snapshot(hour + k - 1, day_of_week)
    /\ (hour = 5 /\ Len(frames) >= 3) =>
           <<frames[1].hour, frames[2].hour, frames[3].hour>> = <<5, 6, 7>>

\* three frames after Play at hour 5, no Pause click
KthFrameWitness ==
    /\ hour = 5
    /\ play /\ ~pause /\ ~pause_clicked
    /\ Len(frames) = 3
    /\ frames[3].hour = 7

\* C5: once Pause has been clicked during the loop, no further frame is
\* produced.
NoFrameAfterPauseClick ==
    pause_clicked => Len(frames) = frames_at_click

\* C6: every frame emitted, and the map on display, is for an hour from the
\* selected start hour to 23.
FramesWithinRange ==
    /\ hour \in SliderMin..SliderMax
    /\ \A k \in 1..Len(frames) : frames[k].hour >= hour /\ frames[k].hour <= 23
    /\ map_placeholder # <<>> =>
           map_placeholder.hour >= hour /\ map_placeholder.hour <= 23

\* a run from hour 20 on Mondays has reached its last frame, the one of 23
FramesWithinRangeWitness ==
    /\ hour = 20
    /\ day_of_week = "Monday"
    /\ Len(frames) = 4
    /\ frames[4].hour = 23
    /\ tpc = "waiting"

----------------------------------------------------------------------------
(* st.cache_data.  Each of the three scripts runs in its own Streamlit      *)
(* process; a run of a script calls its functions in order.  A decorated    *)
(* function is looked up under its name and the hash of its arguments; the  *)
(* CSV file the loaders read is not an argument.                            *)

\* Bounds of the model
MaxVersions == 2
MaxRuns == 3

CsvPath == "bay_wheels_october.csv"

\* what function fn computes from data of content v
Result(fn, v) == [fn |-> fn, of |-> v]

NeverHit(c, key) == FALSE
\* the cache holds an entry for the key
Hit(c, key) == key \in DOMAIN c

Bump(counts, fp) ==
    IF fp \in DOMAIN counts THEN [counts EXCEPT ![fp] = @ + 1]
    ELSE counts @@ (fp :> 1)

Note(rets, fp, x) ==
    IF fp \in DOMAIN rets THEN [rets EXCEPT ![fp] = @ \cup {x}]
    ELSE rets @@ (fp :> {x})

\* A call of an @st.cache_data function fn with arguments args, whose body
\* would compute from data of content v: the stored result on a hit, else
\* the body runs and its result is stored.
cache_data_call(st, fn, args, v) ==
    LET key == <<fn, args>>
        fp == <<fn, v>>
        hit == Hit(st.cache, key)
        out == IF hit THEN st.cache[key] ELSE Result(fn, v)
    IN  [cache |-> IF hit THEN st.cache ELSE st.cache @@ (key :> out),
         calls |-> IF hit THEN st.calls ELSE Bump(st.calls, fp),
         returned |-> Note(st.returned, fp, out),
         ret |-> out]

\* A call of an undecorated function: its body runs every time.
plain_call(st, fn, v) ==
    [cache |-> st.cache,
     calls |-> Bump(st.calls, <<fn, v>>),
     returned |-> Note(st.returned, <<fn, v>>, Result(fn, v)),
     ret |-> Result(fn, v)]

Now == [cache |-> cache, calls |-> calls, returned |-> returned, ret |-> <<>>]

Commit(st) == /\ cache' = st.cache
              /\ calls' = st.calls
              /\ returned' = st.returned
              /\ runs' = runs + 1
              /\ UNCHANGED <<file, valVars, staVars, metVars, tlVars, snapVars>>

CacheInit == /\ file = 1
             /\ cache = <<>>
             /\ calls = <<>>
             /\ returned = <<>>
             /\ last_load = <<>>
             /\ runs = 0
             /\ ValidateIdle
             /\ StationsIdle
             /\ MetricsIdle
             /\ TimelapseIdle
             /\ SnapshotIdle

\* app.py:10-31: data = load_data(); agg_data = aggregate_data(data)
RunApp ==
    /\ runs < MaxRuns
    /\ LET s1 == cache_data_call(Now, "app.load_data", <<>>, file)
           s2 == cache_data_call(s1, "app.aggregate_data", <<s1.ret.of>>, s1.ret.of)
       IN  /\ last_load' = [ret |-> s1.ret, fresh |-> Result("app.load_data", file)]
           /\ Commit(s2)

\* october_insights.py:228-284: main()
RunInsights ==
    /\ runs < MaxRuns
    /\ LET s1 == cache_data_call(Now, "insights.load_and_preprocess_data",
                                 <<CsvPath>>, file)
           s2 == plain_call(s1, "insights.calculate_trip_metrics", s1.ret.of)
           s3 == plain_call(s2, "insights.analyze_station_patterns", s1.ret.of)
       IN  /\ last_load' = [ret |-> s1.ret,
                            fresh |-> Result("insights.load_and_preprocess_data", file)]
           /\ Commit(s3)

\* october_analysis.py:43-45 and the call of calculate_aggregations(df)
RunAnalysis ==
    /\ runs < MaxRuns
    /\ LET s1 == cache_data_call(Now, "analysis.load_and_preprocess_data",
                                 <<CsvPath>>, file)
           s2 == cache_data_call(s1, "analysis.calculate_aggregations",
                                 <<s1.ret.of>>, s1.ret.of)
       IN  /\ last_load' = [ret |-> s1.ret,
                            fresh |-> Result("analysis.load_and_preprocess_data", file)]
           /\ Commit(s2)

\* bay_wheels_october.csv is replaced on disk by a file of other content
ReplaceFile ==
    /\ file' \in (1..MaxVersions) \ {file}
    /\ UNCHANGED <<cache, calls, returned, last_load, runs,
                   valVars, staVars, metVars, tlVars, snapVars>>

CacheNext == RunApp \/ RunInsights \/ RunAnalysis \/ ReplaceFile

SpecCache == CacheInit /\ [][CacheNext]_vars

----------------------------------------------------------------------------
(* C7, C8: the cache                                                        *)

\* the functions under @st.cache_data
CachedFunctions == {"app.load_data", "app.aggregate_data",
                    "insights.load_and_preprocess_data",
                    "analysis.load_and_preprocess_data",
                    "analysis.calculate_aggregations"}

\* C7 as stated: no function body runs more than once for the same
\* (function, inputs), whatever the pipeline operation.
AtMostOneComputationPerFingerprint ==
    \A fp \in DOMAIN calls : calls[fp] <= 1

\* C7 as amended: queries with the same (function, inputs) return equal
\* results, and the functions under st.cache_data run at most once per
\* (function, inputs).
CachedFunctionsComputeOnce ==
    /\ \A fp \in DOMAIN returned : Cardinality(returned[fp]) = 1
    /\ \A fp \in DOMAIN calls : fp[1] \in CachedFunctions => calls[fp] <= 1

\* october_insights.py ran twice on the same file: the cached loader ran
\* once, the undecorated calculate_trip_metrics twice
CachedOnceWitness ==
    /\ <<"insights.load_and_preprocess_data", 1>> \in DOMAIN calls
    /\ calls[<<"insights.load_and_preprocess_data", 1>>] = 1
    /\ <<"insights.calculate_trip_metrics", 1>> \in DOMAIN calls
    /\ calls[<<"insights.calculate_trip_metrics", 1>>] = 2

\* C8: what a load returns equals what reading the file at that moment
\* would produce.
CacheHitNeverStale ==
    last_load # <<>> => last_load.ret = last_load.fresh

----------------------------------------------------------------------------
(* C12: a timelapse run ends and does not wrap                              *)

\* the run is in the loop of lines 98-130
Playing == tpc \in {"for", "sleep"}

\* the frames of a run without pause: at most 24, each hour one more than
\* the hour before, none after hour 23, and all of range(hour, 24) once the
\* run is over
FramesDoNotWrap ==
    (play /\ ~pause) =>
        /\ Len(frames) <= RangeStop
        /\ \A k \in 1..(Len(frames) - 1) :
              /\ frames[k + 1].hour = frames[k].hour + 1
              /\ ~(frames[k].hour = SliderMax /\ frames[k + 1].hour = SliderMin)
        /\ \A k \in 1..Len(frames) :
              /\ frames[k].hour \in SliderMin..SliderMax
              /\ frames[k].day = day_of_week
        /\ tpc = "waiting" =>
              /\ Len(frames) = RangeStop - hour
              /\ frames # <<>>
              /\ frames[Len(frames)].hour = SliderMax

\* C12: whatever the start hour and the day filter, a run with no pause
\* requested emits at most 24 frames whose hours go up by exactly 1, never
\* goes from hour 23 to hour 0, and a run that is playing comes to the end
\* of the script, after which it plays no more.
TimelapseTerminatesWithoutWrapping ==
    /\ []FramesDoNotWrap
    /\ Playing ~> (tpc = "waiting")

\* a run started at hour 0 on Monday has shown its 24 frames and is over
TimelapseEndedWitness ==
    /\ play
    /\ ~pause
    /\ hour = SliderMin
    /\ day_of_week = "Monday"
    /\ Len(frames) = RangeStop
    /\ frames[RangeStop].hour = SliderMax
    /\ tpc = "waiting"

----------------------------------------------------------------------------
(* app.py: the rows behind the maps (load_data, aggregate_data, the two     *)
(* filters)                                                                 *)

\* Bounds of the model
MaxAppTrips == 2

\* the values of the file, each list in the order pandas sorts the column
AppLats == <<Num(37)>>
AppLngs == <<Num(-122)>>
AppHours == <<0, 23>>
DayNames == <<"Monday", "Sunday">>
SeqRange(q) == {q[k] : k \in 1..Len(q)}

\* started_at as the day and the hour of the timestamp
StartedAt == {[day_name |-> d, hour |-> h] : d \in SeqRange(DayNames), h \in SeqRange(AppHours)}

\* one row of bay_wheels_october.csv; an empty start_lat cell reads as NaN
AppRows == [start_lat : SeqRange(AppLats) \cup {NaN}, start_lng : SeqRange(AppLngs),
            started_at : StartedAt]
AppFrames(n) == [1..n -> AppRows]

\* load_data(), lines 13-17: the columns hour and day_of_week are added
load_data(rows) ==
    [i \in 1..Len(rows) |->
        [start_lat |-> rows[i].start_lat, start_lng |-> rows[i].start_lng,
         started_at |-> rows[i].started_at,
         hour |-> rows[i].started_at.hour,
         day_of_week |-> rows[i].started_at.day_name]]

\* the keys (start_lat, start_lng, hour, day_of_week) in sorted order
AggKeys ==
    [k \in 1..(Len(AppLats) * Len(AppLngs) * Len(AppHours) * Len(DayNames)) |->
        LET d == (k - 1) % Len(DayNames)
            h == ((k - 1) \div Len(DayNames)) % Len(AppHours)
            g == ((k - 1) \div (Len(DayNames) * Len(AppHours))) % Len(AppLngs)
            a == (k - 1) \div (Len(DayNames) * Len(AppHours) * Len(AppLngs))
        IN  [start_lat |-> AppLats[a + 1], start_lng |-> AppLngs[g + 1],
             hour |-> AppHours[h + 1], day_of_week |-> DayNames[d + 1]]]

\* the rows of a group; NaN equals no key, so a row with a NaN key column
\* is in no group (groupby drops it)
GroupRows(frame, key) ==
    {i \in 1..Len(frame) :
        /\ ~isna(frame[i].start_lat) /\ frame[i].start_lat = key.start_lat
        /\ ~isna(frame[i].start_lng) /\ frame[i].start_lng = key.start_lng
        /\ frame[i].hour = key.hour
        /\ frame[i].day_of_week = key.day_of_week}

\* aggregate_data(data), lines 23-29
aggregate_data(frame) ==
    LET all == [k \in 1..Len(AggKeys) |->
                   [start_lat |-> AggKeys[k].start_lat, start_lng |-> AggKeys[k].start_lng,
                    hour |-> AggKeys[k].hour, day_of_week |-> AggKeys[k].day_of_week,
                    trip_count |-> Cardinality(GroupRows(frame, AggKeys[k]))]]
    IN  SelectSeq(all, LAMBDA g : g.trip_count > 0)

\* lines 59-62 and 102-105: the rows of the hour, of the day if one is chosen
filter_data(agg, h, day) ==
    IF day # "All"
    THEN SelectSeq(agg, LAMBDA g : g.hour = h /\ g.day_of_week = day)
    ELSE SelectSeq(agg, LAMBDA g : g.hour = h)

\* line 45: "All" and the days present in the data
day_options(frame) == {"All"} \cup {frame[i].day_of_week : i \in 1..Len(frame)}

SnapshotInit == /\ \E n \in 0..MaxAppTrips : app_csv \in AppFrames(n)
                /\ data = <<>>
                /\ agg_data = <<>>
                /\ filtered_data = <<>>
                /\ frame_hour = -1
                /\ apc = "read"
                /\ hour = SliderMin
                /\ day_of_week = "All"
                /\ play = FALSE
                /\ pause = FALSE
                /\ it = 0
                /\ frames = <<>>
                /\ map_placeholder = <<>>
                /\ pause_clicked = FALSE
                /\ frames_at_click = 0
                /\ tpc = "off"
                /\ ValidateIdle
                /\ StationsIdle
                /\ MetricsIdle
                /\ CacheIdle

\* line 19
LoadData == /\ apc = "read"
            /\ data' = load_data(app_csv)
            /\ apc' = "loaded"
            /\ UNCHANGED <<app_csv, agg_data, filtered_data, frame_hour,
                           valVars, staVars, metVars, tlVars, cacheVars>>

\* line 31
AggregateData == /\ apc = "loaded"
                 /\ agg_data' = aggregate_data(data)
                 /\ apc' = "aggregated"
                 /\ UNCHANGED <<app_csv, data, filtered_data, frame_hour,
                                valVars, staVars, metVars, tlVars, cacheVars>>

\* lines 45-56: a run of the script starts with the widgets as the user has
\* set them; the names of the run before are gone
Widgets == /\ apc \in {"aggregated", "done"}
           /\ hour' \in SliderMin..SliderMax
           /\ day_of_week' \in day_options(data)
           /\ play' \in BOOLEAN
           /\ it' = 0
           /\ filtered_data' = <<>>
           /\ frame_hour' = -1
           /\ apc' = "filter"
           /\ UNCHANGED <<app_csv, data, agg_data,
                          pause, frames, map_placeholder, pause_clicked, frames_at_click,
                          tpc, valVars, staVars, metVars, cacheVars>>

\* lines 58-97: the rows of the selected hour, then `if play:`
FilterData == /\ apc = "filter"
              /\ filtered_data' = filter_data(agg_data, hour, day_of_week)
              /\ frame_hour' = hour
              /\ apc' = IF play THEN "for" ELSE "done"
              /\ UNCHANGED <<app_csv, data, agg_data,
                             valVars, staVars, metVars, tlVars, cacheVars>>

\* lines 98-130: the rows of the next h of the range
FrameData == /\ apc = "for"
             /\ it < Len(TimelapseHours(hour))
             /\ it' = it + 1
             /\ LET h == TimelapseHours(hour)[it + 1]
                IN  /\ filtered_data' = filter_data(agg_data, h, day_of_week)
                    /\ frame_hour' = h
             /\ UNCHANGED <<app_csv, data, agg_data, apc,
                            hour, day_of_week, play, pause, frames, map_placeholder,
                            pause_clicked, frames_at_click, tpc,
                            valVars, staVars, metVars, cacheVars>>

\* line 98: the range is exhausted
FrameEnd == /\ apc = "for"
            /\ it = Len(TimelapseHours(hour))
            /\ apc' = "done"
            /\ UNCHANGED <<app_csv, data, agg_data, filtered_data, frame_hour,
                           valVars, staVars, metVars, tlVars, cacheVars>>

SnapshotNext == \/ LoadData
                \/ AggregateData
                \/ Widgets
                \/ FilterData
                \/ FrameData
                \/ FrameEnd

SpecSnapshot == SnapshotInit /\ [][SnapshotNext]_vars

----------------------------------------------------------------------------
(* C13: the rows of a frame                                                 *)

\* the rows of the data started in hour h, on the day if one is chosen
TripsStarted(h, day) ==
    {i \in 1..Len(data) :
        data[i].hour = h /\ (day = "All" \/ data[i].day_of_week = day)}

TripCounts(rows) == [k \in 1..Len(rows) |-> rows[k].trip_count]

\* the loop has selected the rows of a frame
FrameSelected == play /\ it >= 1 /\ apc \in {"for", "done"}

\* the frame holds the rows of agg_data for its hour under the day filter,
\* all of them and no others
FrameRowsExact ==
    /\ \A k \in 1..Len(filtered_data) :
          /\ filtered_data[k].hour = frame_hour
          /\ day_of_week # "All" => filtered_data[k].day_of_week = day_of_week
          /\ \E j \in 1..Len(agg_data) : agg_data[j] = filtered_data[k]
    /\ \A j \in 1..Len(agg_data) :
          (/\ agg_data[j].hour = frame_hour
           /\ day_of_week = "All" \/ agg_data[j].day_of_week = day_of_week)
              => \E k \in 1..Len(filtered_data) : filtered_data[k] = agg_data[j]

\* C13 as stated: a frame for hour h holds exactly the aggregated rows of
\* that hour under the day filter, and their trip_count adds up to the number
\* of trips started in hour h (on the chosen day, or on any day with "All").
FrameCountsTripsOfHour ==
    FrameSelected =>
        /\ FrameRowsExact
        /\ Sum(TripCounts(filtered_data))
               = Cardinality(TripsStarted(frame_hour, day_of_week))

\* what the code keeps: the rows are the aggregated rows of the hour, and
\* their trip_count adds up to the trips of the hour that have both start
\* coordinates
FrameCountsLocatedTrips ==
    FrameSelected =>
        /\ FrameRowsExact
        /\ Sum(TripCounts(filtered_data))
               = Cardinality({i \in TripsStarted(frame_hour, day_of_week) :
                                 ~isna(data[i].start_lat) /\ ~isna(data[i].start_lng)})

\* a frame for hour 23 that counts one of the two trips started in hour 23
FrameMissesTripWitness ==
    /\ FrameSelected
    /\ frame_hour = SliderMax
    /\ Cardinality(TripsStarted(frame_hour, day_of_week)) = 2
    /\ Sum(TripCounts(filtered_data)) = 1

----------------------------------------------------------------------------
(* C15: the trips in the sums of the imbalance table                        *)

\* the imbalance table the script has computed
ImbalanceTable == IF spc = "analyzed" THEN station_flows ELSE station_differences

SumOf(table, column) == Sum([k \in 1..Len(table) |-> table[k][column]])

\* the trips that have a name in the column
Named(column) == {i \in 1..Len(trips) : trips[i][column] # NoName}

AllNamed == /\ Named("start_station_name") = 1..Len(trips)
            /\ Named("end_station_name") = 1..Len(trips)

\* C15: in the imbalance table every trip is counted once on each side
\* where it has a station name.  When every trip has both names, the sum of
\* the start counts, the sum of the end counts and the number of trips are
\* equal and the imbalances add up to 0; a trip with a null name on a side is
\* missing from that side's sum, and the three are then not all equal.
TripsConserved ==
    spc \in {"analyzed", "differenced"} =>
        /\ SumOf(ImbalanceTable, "starts") = Cardinality(Named("start_station_name"))
        /\ SumOf(ImbalanceTable, "ends") = Cardinality(Named("end_station_name"))
        /\ AllNamed =>
              /\ SumOf(ImbalanceTable, "starts") = Len(trips)
              /\ SumOf(ImbalanceTable, "ends") = Len(trips)
              /\ SumOf(ImbalanceTable, "imbalance") = 0
        /\ ~AllNamed =>
              ~(/\ SumOf(ImbalanceTable, "starts") = Len(trips)
                /\ SumOf(ImbalanceTable, "ends") = Len(trips))
        /\ \A i \in 1..Len(trips) :
              (trips[i].start_station_name = NoName /\ trips[i].end_station_name # NoName
               /\ \A j \in 1..Len(trips) : j # i => trips[j] \in {Trip(a, b) : a, b \in NameSet})
                  => SumOf(ImbalanceTable, "ends") = SumOf(ImbalanceTable, "starts") + 1

\* three trips, one without a start station name: 2 starts, 3 ends
TripsConservedWitness ==
    /\ spc = "differenced"
    /\ trips = <<Trip("A", "B"), Trip(NoName, "A"), Trip("A", "B")>>
    /\ SumOf(station_differences, "starts") = 2
    /\ SumOf(station_differences, "ends") = 3
    /\ SumOf(station_differences, "imbalance") = 1

\* three trips with both names: 3 starts, 3 ends
TripsConservedNamedWitness ==
    /\ spc = "analyzed"
    /\ trips = <<Trip("A", "B"), Trip("B", "A"), Trip("A", "B")>>
    /\ SumOf(station_flows, "starts") = 3
    /\ SumOf(station_flows, "ends") = 3
    /\ SumOf(station_flows, "imbalance") = 0

====
